---- MODULE Spec2Model ----
(***************************************************************************)
(* Model of the scheduler extender of src/main.go.                         *)
(*                                                                         *)
(* Spec       the running service: the reflector lists and watches pods,   *)
(*            the informer's consumer pops deltas and applies them to the  *)
(*            indexer under its lock, main waits for the initial sync and   *)
(*            then serves group_score calls that read the index.           *)
(* SpecScore  the group_score closure alone, on node lists, capacities and *)
(*            lookup results drawn from bounded sets.                      *)
(*                                                                         *)
(* The indexer and the informer are client-go's (cache.NewIndexerInformer, *)
(* main.go:40-44): a threadSafeMap whose Add/Update/Delete run under a      *)
(* write lock and whose ByIndex runs under the read lock, fed by a          *)
(* DeltaFIFO whose Pop holds the queue lock while the delta is processed.   *)
(* The queue is kept as one sequence of deltas (the per-key grouping of the *)
(* DeltaFIFO keeps each key's order, which is all the store depends on);    *)
(* a watch that breaks and lists again is not modelled.                     *)
(*                                                                         *)
(* Quantities are resource.Quantity's int64Amount: a value and a decimal   *)
(* scale. Memory is counted in units of 1Gi. Node capacities are 0 or a    *)
(* power of two, so that the float64 arithmetic of the score is exact and  *)
(* integer arithmetic computes the same number.                            *)
(***************************************************************************)
EXTENDS Integers, Sequences, FiniteSets, TLC

\* ------------------------------------------------------------------ bounds
MaxQueue == 1          \* watch deltas waiting in the DeltaFIFO (the first listing is queued whole)
MaxEvents == 2         \* watch events and resyncs delivered after the first listing
MaxCallNodes == 2      \* nodes in one group_score call of Spec
MaxScoreNodes == 2     \* nodes in one group_score call of SpecScore
MaxPodsOnNode == 2     \* pods one lookup returns in SpecScore

\* ------------------------------------------------------------------ data
PodKeys == {"p1", "p2"}
NodeNames == {"n1", "n2"}

Q(v, s) == [value |-> v, scale |-> s]
ZeroQuantity == Q(0, 0)

\* v1.PodPhase values that the index function tells apart
PodSucceeded == "Succeeded"
PodFailed == "Failed"

OneContainer == <<[cpu |-> Q(1, 0), mem |-> Q(1, 0)]>>

\* (assigned node, phase) of the pods the API server reports
Placements ==
    { <<"", "Pending">>, <<"n1", "Running">>, <<"n2", "Running">>,
      <<"n1", PodSucceeded>>, <<"n2", PodFailed>> }

\* an object as the cache holds it: its dynamic type, its key, and the pod fields read
Object(kd, k, n, ph, cs) ==
    [kind |-> kd, key |-> k, nodeName |-> n, phase |-> ph, containers |-> cs]

Pod(k, n, ph, cs) == Object("Pod", k, n, ph, cs)

SysPods(k) == { Pod(k, pl[1], pl[2], OneContainer) : pl \in Placements }

AllSysPods == UNION { SysPods(k) : k \in PodKeys }

\* what c.items[key] yields for a key the map does not hold: a nil interface
NilObj == Object("nil", "", "", "", <<>>)

\* obj.(*v1.Pod) succeeds
IsPod(obj) == obj.kind = "Pod"

\* ------------------------------------------------------------------ index
\* indexByPodNodeName: the index values of an object (no value, or one)
IndexIgnoringPhase(obj) ==
    IF ~IsPod(obj) THEN {}
    ELSE IF obj.nodeName = "" THEN {}
    ELSE {obj.nodeName}

indexByPodNodeName(obj) ==
    IF ~IsPod(obj) THEN {}
    ELSE IF obj.nodeName = "" \/ obj.phase = PodSucceeded \/ obj.phase = PodFailed THEN {}
    ELSE {obj.nodeName}

\* threadSafeMap.deleteFromIndices, for the one index "node"
deleteFromIndices(idx, obj, key) ==
    [n \in NodeNames |-> IF n \in indexByPodNodeName(obj) THEN idx[n] \ {key} ELSE idx[n]]

\* the insertion loop of threadSafeMap.updateIndices
addToIndices(idx, obj, key) ==
    [n \in NodeNames |-> IF n \in indexByPodNodeName(obj) THEN idx[n] \cup {key} ELSE idx[n]]

UpdateKeepingOld(idx, oldObj, newObj, key) == addToIndices(idx, newObj, key)

UpdateAddThenDelete(idx, oldObj, newObj, key) ==
    IF oldObj # NilObj
    THEN deleteFromIndices(addToIndices(idx, newObj, key), oldObj, key)
    ELSE addToIndices(idx, newObj, key)

\* threadSafeMap.updateIndices: the old object's entries go, the new one's come
updateIndices(idx, oldObj, newObj, key) ==
    IF oldObj # NilObj
    THEN addToIndices(deleteFromIndices(idx, oldObj, key), newObj, key)
    ELSE addToIndices(idx, newObj, key)

\* c.items[key], nil when the key is absent
GetItem(its, key) == IF key \in DOMAIN its THEN its[key] ELSE NilObj

PutItem(its, key, obj) == [k \in DOMAIN its \cup {key} |-> IF k = key THEN obj ELSE its[k]]

DropItem(its, key) == [k \in DOMAIN its \ {key} |-> its[k]]

\* threadSafeMap.ByIndex("node", n) on a given map and index: the objects of the keys
ByIndexIn(its, idx, n) == IF n \in DOMAIN idx THEN { GetItem(its, k) : k \in idx[n] } ELSE {}

\* ------------------------------------------------------------------ deltas
Sync == "Sync"
Added == "Added"
Updated == "Updated"
Deleted == "Deleted"

Delta(t, obj) == [type |-> t, obj |-> obj]

\* a Deleted delta is applied by key alone (cache.Delete computes the key)
DeletedObj(k) == Pod(k, "", "", <<>>)

NoDelta == Delta("", NilObj)

\* the store after threadSafeMap.Add / Update of obj (the two are the same code)
StoreUpsert(st, obj) ==
    [items |-> PutItem(st.items, obj.key, obj),
     indices |-> updateIndices(st.indices, GetItem(st.items, obj.key), obj, obj.key)]

\* the store after threadSafeMap.Delete of key
StoreDelete(st, key) ==
    IF key \in DOMAIN st.items
    THEN [items |-> DropItem(st.items, key),
          indices |-> deleteFromIndices(st.indices, st.items[key], key)]
    ELSE st

\* the informer's Process function on one delta, start to end
Process(st, d) ==
    IF d.type = Deleted THEN StoreDelete(st, d.obj.key) ELSE StoreUpsert(st, d.obj)

\* ------------------------------------------------------------------ state
VARIABLES
    rpc,                     \* reflector: "list" before the first listing, then "watch"
    queue,                   \* DeltaFIFO: the deltas not yet popped
    populated,               \* DeltaFIFO.populated
    initialPopulationCount,  \* DeltaFIFO.initialPopulationCount
    wpc,                     \* the consumer's position inside Pop/Process; "idle" holds no lock
    cur,                     \* the delta being processed
    items,                   \* threadSafeMap.items: key -> object
    indices,                 \* threadSafeMap.indices["node"]: node name -> set of keys
    before,                  \* history: the store when the delta in progress was popped
    applied,                 \* history: key -> the object of the last applied event, deleted keys absent
    pendingInitial,          \* history: keys of the first listing whose delta is not applied yet
    nEvents,                 \* number of watch and resync deliveries so far
    mpc,                     \* main: "waiting" in WaitForCacheSync, then "serving"
    call,                    \* the group_score call in progress: pc, nodes, i, priorityList
    looked,                  \* history: what indexer.ByIndex returned for each node of the call
    reply,                   \* the response of the last predicate or bind callback, or the last aggregation
    skipped,                 \* history: the number of the last watch event skipped as no pod, or 0
    arch,                    \* the architecture the service was built for
    call2,                   \* a second group_score call, handled by another worker
    looked2                  \* history: the lookups of the second call

vars == <<rpc, queue, populated, initialPopulationCount, wpc, cur, items, indices,
          before, applied, pendingInitial, nEvents, mpc, call, looked,
          reply, skipped, arch, call2, looked2>>

\* what the informer and one group_score call leave alone
otherVars == <<skipped, arch, call2, looked2>>

informerVars == <<rpc, queue, populated, initialPopulationCount, wpc, cur, items, indices,
                  before, applied, pendingInitial, nEvents>>

\* ------------------------------------------------------------------ quantities
\* int64Amount.Add, as Quantity.Add uses it (scales 0 and -3, no overflow)
QAdd(a, b) ==
    IF b.value = 0 THEN a
    ELSE IF a.value = 0 THEN b
    ELSE IF a.scale = b.scale THEN Q(a.value + b.value, a.scale)
    ELSE IF a.scale > b.scale THEN Q(a.value * 1000 + b.value, b.scale)
    ELSE Q(a.value + b.value * 1000, a.scale)

\* Quantity.AsInt64: the value when the scale is 0; (0, false) when the scale is negative
AsInt64(q) == IF q.scale = 0 THEN q.value ELSE 0

\* toFloat: the int64 of AsInt64, its ok result dropped
toFloat(q) == AsInt64(q)

\* ------------------------------------------------------------------ group_score
DefaultScore == 1000
LookupFailedScore == 0
\* stand-ins for math.MinInt64 and math.MaxInt64, which TLC's integers cannot hold:
\* only their sign and their lying outside 0..1000 is used
MinInt64 == -2147483647
MaxInt64 == 2147483647

Node(nm, lb, c, m) == [name |-> nm, labels |-> lb, cpuCap |-> c, memCap |-> m]

NoLabels == [l \in {} |-> ""]
GroupLabel(v) == [l \in {"group"} |-> v]

LabelledAnyGroup(node) == "group" \in DOMAIN node.labels

\* group, ok := node.Labels["group"]; ok && group == "Scale"
Labelled(node) == "group" \in DOMAIN node.labels /\ node.labels["group"] = "Scale"

ZeroRequests == [cpu |-> ZeroQuantity, mem |-> ZeroQuantity]

SumFirstContainer(cs, acc) ==
    IF cs = <<>> THEN acc
    ELSE [cpu |-> QAdd(acc.cpu, Head(cs).cpu), mem |-> QAdd(acc.mem, Head(cs).mem)]

\* the loop over pod.Spec.Containers
RECURSIVE SumContainers(_, _)
SumContainers(cs, acc) ==
    IF cs = <<>> THEN acc
    ELSE SumContainers(Tail(cs), [cpu |-> QAdd(acc.cpu, Head(cs).cpu),
                                  mem |-> QAdd(acc.mem, Head(cs).mem)])

\* the loop over the objects of the lookup; an object that is no pod adds nothing
RECURSIVE SumRequests(_, _)
SumRequests(objs, acc) ==
    IF objs = {} THEN acc
    ELSE LET o == CHOOSE x \in objs : TRUE
         IN SumRequests(objs \ {o}, IF IsPod(o) THEN SumContainers(o.containers, acc) ELSE acc)

\* int64(score) of a NaN and of +Inf: the Go specification leaves the result to the
\* implementation (amd64 gives MinInt64 for both, arm64 gives 0 and MaxInt64); it is
\* the same at every conversion of one build
NaNToInt64 == IF arch = "amd64" THEN {MinInt64} ELSE {0}
InfToInt64 == IF arch = "amd64" THEN {MinInt64} ELSE {MaxInt64}

\* lines 84-86: the values int64((cpu/nodeCpu + mem/nodeMem) * 100.0) can take
ScoreOutcomes(node, objs) ==
    LET req == SumRequests(objs, ZeroRequests)
        c == toFloat(req.cpu)
        m == toFloat(req.mem)
        nc == toFloat(node.cpuCap)
        nm == toFloat(node.memCap)
    IN  IF (nc = 0 /\ c = 0) \/ (nm = 0 /\ m = 0) THEN NaNToInt64
        ELSE IF nc = 0 \/ nm = 0 THEN InfToInt64
        ELSE { (100 * (c * nm + m * nc)) \div (nc * nm) }

Lookup(e, objs) == [err |-> e, pods |-> objs]

HostPriorityWithoutHost(h, sc) == [Host |-> "", Score |-> sc]

HostPriority(h, sc) == [Host |-> h, Score |-> sc]

\* make([]schedulerapi.HostPriority, len(nodes))
MakePriorityList(n) == [i \in 1..n |-> HostPriority("", 0)]

EmptyMap == [k \in {} |-> NilObj]
EmptyIndex == [n \in NodeNames |-> {}]

Store == [items |-> items, indices |-> indices]

IdleCall ==
    [pc |-> "idle", pod |-> NilObj, nodes |-> <<>>, i |-> 1, list |-> <<>>, err |-> "unset"]

\* no predicate or bind callback has answered yet
NoReply == [kind |-> "none", args |-> <<>>, result |-> <<>>]

Archs == {"amd64", "arm64"}

\* no lookup is made for a node without the label
NoLookup == Lookup(FALSE, {})

KeyOrder == <<"p1", "p2">>

InKeyOrder(S) == SelectSeq(KeyOrder, LAMBDA k : k \in S)

\* the first listings: any set of pods, one per key
InitialLists ==
    UNION { { f \in [S -> AllSysPods] : \A k \in S : f[k].key = k } : S \in SUBSET PodKeys }

SyncDeltas(f, keys) == [j \in 1..Len(keys) |-> Delta(Sync, f[keys[j]])]

Init ==
    /\ rpc = "list"
    /\ queue = <<>>
    /\ populated = FALSE
    /\ initialPopulationCount = 0
    /\ wpc = "idle"
    /\ cur = NoDelta
    /\ items = EmptyMap
    /\ indices = EmptyIndex
    /\ before = [items |-> EmptyMap, indices |-> EmptyIndex]
    /\ applied = EmptyMap
    /\ pendingInitial = {}
    /\ nEvents = 0
    /\ mpc = "waiting"
    /\ call = IdleCall
    /\ looked = <<>>
    /\ reply = NoReply
    /\ skipped = 0
    /\ arch = "amd64"
    /\ call2 = IdleCall
    /\ looked2 = <<>>

\* ------------------------------------------------------------------ reflector
\* ListAndWatch's list, handed to DeltaFIFO.Replace
List ==
    /\ rpc = "list"
    /\ wpc = "idle"
    /\ \E f \in InitialLists :
          /\ queue' = SyncDeltas(f, InKeyOrder(DOMAIN f))
          /\ initialPopulationCount' = Cardinality(DOMAIN f)
          /\ pendingInitial' = DOMAIN f
    /\ populated' = TRUE
    /\ rpc' = "watch"
    /\ UNCHANGED <<otherVars, reply, wpc, cur, items, indices, before, applied, nEvents, mpc, call, looked>>

QueuedKeys == { queue[j].obj.key : j \in 1..Len(queue) }

\* the last delta queued for key k
LastQueued(k) ==
    queue[CHOOSE j \in 1..Len(queue) :
             /\ queue[j].obj.key = k
             /\ \A l \in (j + 1)..Len(queue) : queue[l].obj.key # k]

\* the pod of key k exists as far as the watch has reported
Known(k) == IF k \in QueuedKeys THEN LastQueued(k).type # Deleted ELSE k \in DOMAIN items

\* the deltas a watch event can queue: watch.Added and watch.Modified carry any state of
\* the pod (also the one delivered last), watch.Deleted may come for a pod already gone
WatchDeltas ==
    { Delta(IF Known(p.key) THEN Updated ELSE Added, p) : p \in AllSysPods }
        \cup { Delta(Deleted, DeletedObj(k)) : k \in PodKeys }

\* a watch event, queued by DeltaFIFO.Add / Update / Delete
WatchEvent ==
    /\ rpc = "watch"
    /\ wpc = "idle"
    /\ Len(queue) < MaxQueue
    /\ nEvents < MaxEvents
    /\ \E d \in WatchDeltas : queue' = Append(queue, d)
    /\ nEvents' = nEvents + 1
    /\ UNCHANGED <<otherVars, reply, rpc, populated, initialPopulationCount, wpc, cur, items, indices,
                   before, applied, pendingInitial, mpc, call, looked>>

\* the periodic resync (time.Hour*24): a Sync delta for every stored key with none queued
Resync ==
    LET keys == InKeyOrder(DOMAIN items \ QueuedKeys)
    IN  /\ rpc = "watch"
        /\ wpc = "idle"
        /\ keys # <<>>
        /\ Len(queue) + Len(keys) <= MaxQueue
        /\ nEvents < MaxEvents
        /\ queue' = queue \o SyncDeltas(items, keys)
        /\ nEvents' = nEvents + 1
        /\ UNCHANGED <<otherVars, reply, rpc, populated, initialPopulationCount, wpc, cur, items, indices,
                       before, applied, pendingInitial, mpc, call, looked>>

\* ------------------------------------------------------------------ consumer
\* DeltaFIFO.Pop: takes the head, counts down the initial population, and calls
\* Process with the queue lock held; Process takes the store's write lock
Pop ==
    /\ wpc = "idle"
    /\ queue # <<>>
    /\ cur' = Head(queue)
    /\ queue' = Tail(queue)
    /\ initialPopulationCount' =
          IF initialPopulationCount > 0 THEN initialPopulationCount - 1
          ELSE initialPopulationCount
    /\ before' = Store
    /\ wpc' = IF Head(queue).type # Deleted THEN "setItem"
              ELSE IF Head(queue).obj.key \in DOMAIN items THEN "deleteFromIndices"
              ELSE "release"
    /\ UNCHANGED <<otherVars, reply, rpc, populated, items, indices, applied, pendingInitial, nEvents,
                   mpc, call, looked>>

\* threadSafeMap.Add / Update: c.items[key] = obj
SetItem ==
    /\ wpc = "setItem"
    /\ items' = PutItem(items, cur.obj.key, cur.obj)
    /\ wpc' = "updateIndices"
    /\ UNCHANGED <<otherVars, reply, rpc, queue, populated, initialPopulationCount, cur, indices, before,
                   applied, pendingInitial, nEvents, mpc, call, looked>>

\* threadSafeMap.Add / Update: c.updateIndices(oldObject, obj, key)
UpdateIndices ==
    /\ wpc = "updateIndices"
    /\ indices' = updateIndices(indices, GetItem(before.items, cur.obj.key), cur.obj, cur.obj.key)
    /\ wpc' = "release"
    /\ UNCHANGED <<otherVars, reply, rpc, queue, populated, initialPopulationCount, cur, items, before,
                   applied, pendingInitial, nEvents, mpc, call, looked>>

\* threadSafeMap.Delete: c.deleteFromIndices(obj, key)
DeleteFromIndices ==
    /\ wpc = "deleteFromIndices"
    /\ indices' = deleteFromIndices(indices, GetItem(items, cur.obj.key), cur.obj.key)
    /\ wpc' = "deleteItem"
    /\ UNCHANGED <<otherVars, reply, rpc, queue, populated, initialPopulationCount, cur, items, before,
                   applied, pendingInitial, nEvents, mpc, call, looked>>

\* threadSafeMap.Delete: delete(c.items, key)
DeleteItem ==
    /\ wpc = "deleteItem"
    /\ items' = DropItem(items, cur.obj.key)
    /\ wpc' = "release"
    /\ UNCHANGED <<otherVars, reply, rpc, queue, populated, initialPopulationCount, cur, indices, before,
                   applied, pendingInitial, nEvents, mpc, call, looked>>

\* the deferred unlocks: the store's lock, then the queue's
Release ==
    /\ wpc = "release"
    /\ wpc' = "idle"
    /\ applied' = IF cur.type = Deleted THEN DropItem(applied, cur.obj.key)
                  ELSE PutItem(applied, cur.obj.key, cur.obj)
    /\ pendingInitial' = pendingInitial \ {cur.obj.key}
    /\ before' = Store
    /\ cur' = NoDelta
    /\ UNCHANGED <<otherVars, reply, rpc, queue, populated, initialPopulationCount, items, indices, nEvents,
                   mpc, call, looked>>

\* ------------------------------------------------------------------ main
HasSyncedWithoutLock == populated /\ initialPopulationCount = 0

\* DeltaFIFO.HasSynced: takes the queue lock, which Pop holds while it processes
HasSynced == wpc = "idle" /\ populated /\ initialPopulationCount = 0

\* cache.WaitForCacheSync(wait.NeverStop, informer.HasSynced) returns; the routes are
\* registered and http.ListenAndServe starts
WaitForCacheSync ==
    /\ mpc = "waiting"
    /\ HasSynced
    /\ mpc' = "serving"
    /\ UNCHANGED <<otherVars, reply, informerVars, call, looked>>

\* ------------------------------------------------------------------ callbacks
SysNodes ==
    { Node("n1", GroupLabel("Scale"), Q(4, 0), Q(8, 0)),
      Node("n2", GroupLabel("Scale"), Q(4, 0), Q(8, 0)),
      Node("n2", NoLabels, Q(4, 0), Q(8, 0)) }

SeqsUpTo(S, n) == UNION { [1..m -> S] : m \in 0..n }

\* the node lists of the calls: up to MaxCallNodes nodes of different names
CallNodeLists ==
    { l \in SeqsUpTo(SysNodes, MaxCallNodes) :
        \A i, j \in 1..Len(l) : i # j => l[i].name # l[j].name }

RLockAlways == TRUE

RLockWhenQueueDrained == wpc = "idle" /\ queue = <<>>

\* c.lock.RLock() of ByIndex succeeds: the consumer does not hold the write lock
CanRLock == wpc = "idle"

\* lines 60-63: priorityList[i] = HostPriority{Host: node.Name, Score: 1000}
WithDefault(c, node) == [c EXCEPT !.list[c.i] = HostPriority(node.name, DefaultScore)]

\* the end of a pass for a node without the label
Advance(c) == [c EXCEPT !.i = c.i + 1]

AbortOnLookupError(c) ==
    [c EXCEPT !.list[c.i].Score = LookupFailedScore, !.i = Len(c.nodes) + 1]

\* lines 68-72: the score is set to 0 and the loop continues with the next node
OnLookupError(c) == [c EXCEPT !.list[c.i].Score = LookupFailedScore, !.i = c.i + 1]

\* line 86: priorityList[i].Score = int64(score)
WithScore(c, sc) == [c EXCEPT !.list[c.i].Score = sc, !.i = c.i + 1]

LoopOutcomesCountingPod(c, lookup) ==
    LET node == c.nodes[c.i]
        d == WithDefault(c, node)
    IN  IF ~Labelled(node) THEN {Advance(d)}
        ELSE IF lookup.err THEN {OnLookupError(d)}
        ELSE {WithScore(d, sc) : sc \in ScoreOutcomes(node, lookup.pods \cup {c.pod})}

\* one pass of the loop of lines 59-89 for the node at c.i, given the lookup: the
\* call as it can be after the pass. The pod of the call is not read (line 55)
LoopOutcomes(c, lookup) ==
    LET node == c.nodes[c.i]
        d == WithDefault(c, node)
    IN  IF ~Labelled(node) THEN {Advance(d)}
        ELSE IF lookup.err THEN {OnLookupError(d)}
        ELSE {WithScore(d, sc) : sc \in ScoreOutcomes(node, lookup.pods)}

\* one pass of the loop for the call of the first worker
LoopBody(lookup) ==
    /\ call' \in LoopOutcomes(call, lookup)
    /\ looked' = Append(looked, lookup)

ListeningBeforeSync == TRUE

\* http.ListenAndServe runs: main has come past WaitForCacheSync
Listening == mpc = "serving"

\* the pod being scheduled: not bound to a node yet
CallPods == { Pod("p0", "", "Pending", OneContainer) }

\* lines 56-57: the call as GroupPriority.Func(pod, nodes) starts its loop
NewCall(pod, nodes) ==
    [pc |-> "loop", pod |-> pod, nodes |-> nodes, i |-> 1,
     list |-> MakePriorityList(Len(nodes)), err |-> "unset"]

\* the HTTP layer calls GroupPriority.Func(pod, nodes); the worker's last response
\* is forgotten
PrioritizeStart ==
    /\ Listening
    /\ call.pc \in {"idle", "done"}
    /\ \E pod \in CallPods, nodes \in CallNodeLists : call' = NewCall(pod, nodes)
    /\ looked' = <<>>
    /\ reply' = NoReply
    /\ UNCHANGED <<otherVars, informerVars, mpc>>

\* one pass of the loop, the lookup read from the live index under the read lock;
\* the "node" index is registered, so ByIndex returns no error
PrioritizeNode ==
    /\ call.pc = "loop"
    /\ call.i <= Len(call.nodes)
    /\ LET node == call.nodes[call.i]
       IN  IF Labelled(node)
           THEN /\ CanRLock
                /\ LoopBody(Lookup(FALSE, ByIndexIn(items, indices, node.name)))
           ELSE LoopBody(NoLookup)
    /\ UNCHANGED <<otherVars, reply, informerVars, mpc>>

\* line 90: return &priorityList, nil
PrioritizeReturn ==
    /\ call.pc = "loop"
    /\ call.i > Len(call.nodes)
    /\ call' = [call EXCEPT !.pc = "done", !.err = "nil"]
    /\ UNCHANGED <<otherVars, reply, informerVars, mpc, looked>>

\* ------------------------------------------------------------------ always_true, bind
\* the node of a predicate call: one the index may hold pods for, one it never does
PredicateNodes ==
    { Node("n1", GroupLabel("Scale"), Q(4, 0), Q(8, 0)),
      Node("n3", NoLabels, Q(4, 0), Q(8, 0)) }

PredicateIndexedOnly(pod, node) ==
    [ok |-> ByIndexIn(items, indices, node.name) # {}, err |-> "nil"]

\* lines 48-50: Func: func(pod v1.Pod, node v1.Node) (bool, error) { return true, nil }
TruePredicate(pod, node) == [ok |-> TRUE, err |-> "nil"]

PredicateAssumingPod ==
    /\ Listening
    /\ call.pc = "idle"
    /\ \E pod \in CallPods, node \in PredicateNodes :
          /\ reply' = [kind |-> "predicate", args |-> <<pod, node>>,
                       result |-> TruePredicate(pod, node)]
          /\ LET st == StoreUpsert(Store, [pod EXCEPT !.nodeName = node.name])
             IN  items' = st.items /\ indices' = st.indices
    /\ UNCHANGED <<otherVars, rpc, queue, populated, initialPopulationCount, wpc, cur, before,
                   applied, pendingInitial, nEvents, mpc, call, looked>>

\* the HTTP layer calls TruePredicate.Func(pod, node) and answers with its result.
\* always_true and bind share nothing with group_score, so their order with its calls
\* is immaterial: they are taken by a worker that has had no group_score call
Predicate ==
    /\ Listening
    /\ call.pc = "idle"
    /\ \E pod \in CallPods, node \in PredicateNodes :
          reply' = [kind |-> "predicate", args |-> <<pod, node>>,
                    result |-> TruePredicate(pod, node)]
    /\ UNCHANGED <<otherVars, informerVars, mpc, call, looked>>

\* the arguments of a bind call: pod name, namespace, UID and target node
BindArgs ==
    { <<"p1", "default", "uid-1", "n1">>, <<"p0", "kube-system", "uid-0", "n3">> }

BindSucceeds(podName, podNamespace, podUID, node) == [err |-> "nil"]

\* lines 95-97: Func returns fmt.Errorf("This extender doesn't support Bind. ...")
NoBind(podName, podNamespace, podUID, node) ==
    [err |-> "This extender doesn't support Bind.  Please make 'BindVerb' be empty in your ExtenderConfig."]

\* the HTTP layer calls NoBind.Func(podName, podNamespace, podUID, node)
Bind ==
    /\ Listening
    /\ call.pc = "idle"
    /\ \E a \in BindArgs :
          reply' = [kind |-> "bind", args |-> a, result |-> NoBind(a[1], a[2], a[3], a[4])]
    /\ UNCHANGED <<otherVars, informerVars, mpc, call, looked>>

Next ==
    \/ List
    \/ WatchEvent
    \/ Resync
    \/ Pop
    \/ SetItem
    \/ UpdateIndices
    \/ DeleteFromIndices
    \/ DeleteItem
    \/ Release
    \/ WaitForCacheSync
    \/ PrioritizeStart
    \/ PrioritizeNode
    \/ PrioritizeReturn

\* the informer, main and the callbacks of group_score
Spec == Init /\ [][Next]_vars

\* the informer and main, up to the service listening
NextSync ==
    \/ List
    \/ WatchEvent
    \/ Resync
    \/ Pop
    \/ SetItem
    \/ UpdateIndices
    \/ DeleteFromIndices
    \/ DeleteItem
    \/ Release
    \/ WaitForCacheSync

\* the informer, main and the callbacks of always_true and bind
NextHandlers ==
    \/ NextSync
    \/ Predicate
    \/ Bind

SpecHandlers == Init /\ [][NextHandlers]_vars

\* the whole service
NextServing ==
    \/ Next
    \/ Predicate
    \/ Bind

\* ------------------------------------------------------------------ claims, index
\* a pod that counts for the index: assigned to a node and neither Succeeded nor Failed
Active(obj) == obj.nodeName # "" /\ obj.phase \notin {"Succeeded", "Failed"}

\* the pods whose latest applied state is active on node n
LatestOnNode(n) ==
    { applied[k] : k \in { j \in DOMAIN applied : applied[j].nodeName = n /\ Active(applied[j]) } }

podsOnNode(n) == ByIndexIn(items, indices, n)

\* C1: between two events, podsOnNode(n) is exactly the set of pods whose latest applied
\* state is assigned to n, with a non-empty node name and a phase other than Succeeded
\* and Failed; deleted and inactive pods are in no node's set.
C1_IndexIsLatestActive ==
    wpc = "idle" =>
        /\ \A n \in NodeNames : podsOnNode(n) = LatestOnNode(n)
        /\ \A n \in NodeNames : \A o \in podsOnNode(n) : Active(o) /\ o.nodeName = n

\* a watch event made p1 Succeeded on n1 after the listing, p2 is still active on n2
C1_Witness ==
    /\ wpc = "idle"
    /\ queue = <<>>
    /\ nEvents >= 1
    /\ DOMAIN applied = {"p1", "p2"}
    /\ applied["p1"].phase = PodSucceeded
    /\ Active(applied["p2"])
    /\ podsOnNode("n1") = {}
    /\ podsOnNode("n2") = {applied["p2"]}

NodesOf(k) == { n \in NodeNames : k \in indices[n] }

\* the event in progress moves an active pod from one node to another
IsMove ==
    /\ cur.type \in {Sync, Added, Updated}
    /\ LET old == GetItem(before.items, cur.obj.key)
       IN  /\ IsPod(old)
           /\ Active(old)
           /\ Active(cur.obj)
           /\ old.nodeName # cur.obj.nodeName

MoveApplied ==
    LET old == GetItem(before.items, cur.obj.key)
    IN  /\ \A o \in ByIndexIn(items', indices', old.nodeName) : o.key # cur.obj.key
        /\ cur.obj \in ByIndexIn(items', indices', cur.obj.nodeName)

\* C2: an update that moves an active pod from node A to node B leaves it absent from
\* podsOnNode(A) and present in podsOnNode(B) once applied, and in no state at all, the
\* states inside an event included, is one pod key under two nodes.
C2_MovedPodOnOneNode ==
    /\ [](\A k \in PodKeys : Cardinality(NodesOf(k)) <= 1)
    /\ [][(wpc = "release" /\ wpc' = "idle" /\ IsMove) => MoveApplied]_vars

\* the move of p1 from n1 to n2 has been written and is about to be released
C2_Witness ==
    /\ wpc = "release"
    /\ IsMove
    /\ cur.obj.key = "p1"
    /\ GetItem(before.items, "p1").nodeName = "n1"
    /\ cur.obj.nodeName = "n2"
    /\ "p1" \in indices["n2"]
    /\ "p1" \notin indices["n1"]

\* the event in progress repeats the last event applied for its key
RepeatsLast ==
    IF cur.type = Deleted
    THEN cur.obj.key \notin DOMAIN applied
    ELSE cur.obj.key \in DOMAIN applied /\ applied[cur.obj.key] = cur.obj

\* C3: an event that repeats the last applied one (the same pod state added or updated
\* again, or a delete of a pod already deleted) leaves items and index as they were
\* before it, whatever the store held.
C3_RepeatedEventChangesNothing ==
    (wpc = "release" /\ RepeatsLast) => Store = before

\* the state of an indexed pod has been applied a second time
C3_Witness ==
    /\ wpc = "release"
    /\ cur.type = Updated
    /\ RepeatsLast
    /\ Active(cur.obj)
    /\ cur.obj.key \in indices[cur.obj.nodeName]

\* ------------------------------------------------------------------ claims, concurrency
\* the store once the event in progress is applied whole
After == IF cur = NoDelta THEN before ELSE Process(before, cur)

\* a pass of the loop that looked the node up
LookupStep ==
    /\ call.pc = "loop"
    /\ call.i <= Len(call.nodes)
    /\ Labelled(call.nodes[call.i])
    /\ call'.i = call.i + 1

\* C4: every lookup of a call returns the node's pod set either as it was before the
\* event the consumer is processing or as it is after that event, never a mixture, for
\* every interleaving of the consumer's steps with the call's.
C4_LookupSeesWholeEvents ==
    [][LookupStep =>
        LET n == call.nodes[call.i].name
            got == looked'[Len(looked')].pods
        IN  \/ got = ByIndexIn(before.items, before.indices, n)
            \/ got = ByIndexIn(After.items, After.indices, n)]_vars

\* a call that has looked up one node waits for the read lock while the consumer is
\* in the middle of an update
C4_Witness ==
    /\ call.pc = "loop"
    /\ call.i = 2
    /\ call.i <= Len(call.nodes)
    /\ Labelled(call.nodes[call.i])
    /\ looked[1].pods # {}
    /\ wpc = "updateIndices"
    /\ items # before.items
    /\ call.nodes[call.i].name \in indexByPodNodeName(GetItem(before.items, cur.obj.key))

\* C5: no callback is handled before the first listing is applied whole: whenever the
\* service is serving or a call is in progress, the listing has been queued and every
\* key of it has been applied to the index.
C5_ServedAfterInitialSync ==
    (mpc = "serving" \/ call.pc # "idle") =>
        /\ populated
        /\ pendingInitial = {}
        /\ mpc = "serving"

\* a call has returned scores computed from the pods of the first listing
C5_Witness ==
    /\ call.pc = "done"
    /\ nEvents = 0
    /\ DOMAIN applied = PodKeys
    /\ Len(looked) = 2
    /\ looked[1].pods # {}

\* ------------------------------------------------------------------ SpecScore
\* the pods a lookup for node n can return: one container, two containers that each
\* lack one request, a fractional CPU request, requests far above every capacity
ScorePods(n) ==
    { Pod("p1", n, "Running", <<[cpu |-> Q(1, 0), mem |-> Q(1, 0)]>>),
      Pod("p2", n, "Running", <<[cpu |-> Q(1, 0), mem |-> ZeroQuantity],
                                [cpu |-> ZeroQuantity, mem |-> Q(1, 0)]>>),
      Pod("p3", n, "Pending", <<[cpu |-> Q(500, -3), mem |-> Q(1, 0)]>>),
      Pod("p4", n, "Running", <<[cpu |-> Q(12, 0), mem |-> Q(12, 0)]>>) }

\* what indexer.ByIndex("node", n) can hand back: an error, or a list of objects
LookupResults(n) ==
    {Lookup(TRUE, {})}
        \cup { Lookup(FALSE, S) : S \in { T \in SUBSET ScorePods(n) : Cardinality(T) <= MaxPodsOnNode } }

ScoreCapacities == { <<Q(4, 0), Q(8, 0)>>, <<Q(2, 0), Q(2, 0)>>, <<Q(0, 0), Q(0, 0)>> }

ScoreLabels == {GroupLabel("Scale"), GroupLabel("Batch"), NoLabels}

\* n1 with every label and capacity, n2 labelled and unlabelled
ScoreNodes ==
    { Node("n1", lb, cap[1], cap[2]) : lb \in ScoreLabels, cap \in ScoreCapacities }
        \cup { Node("n2", lb, Q(4, 0), Q(8, 0)) : lb \in {GroupLabel("Scale"), NoLabels} }

ScoreNodeLists == SeqsUpTo(ScoreNodes, MaxScoreNodes)

\* the service is serving, the first listing was empty, a call has just started
InitScore ==
    /\ rpc = "watch"
    /\ queue = <<>>
    /\ populated = TRUE
    /\ initialPopulationCount = 0
    /\ wpc = "idle"
    /\ cur = NoDelta
    /\ items = EmptyMap
    /\ indices = EmptyIndex
    /\ before = [items |-> EmptyMap, indices |-> EmptyIndex]
    /\ applied = EmptyMap
    /\ pendingInitial = {}
    /\ nEvents = 0
    /\ mpc = "serving"
    /\ \E pod \in CallPods, nodes \in ScoreNodeLists : call = NewCall(pod, nodes)
    /\ looked = <<>>
    /\ reply = NoReply
    /\ skipped = 0
    /\ arch \in Archs
    /\ call2 = IdleCall
    /\ looked2 = <<>>

\* one pass of the loop, the lookup's result drawn from what ByIndex can return
ScoreNode ==
    /\ call.pc = "loop"
    /\ call.i <= Len(call.nodes)
    /\ LET node == call.nodes[call.i]
       IN  IF Labelled(node)
           THEN \E lookup \in LookupResults(node.name) : LoopBody(lookup)
           ELSE LoopBody(NoLookup)
    /\ UNCHANGED <<otherVars, reply, informerVars, mpc>>

NextScore ==
    \/ ScoreNode
    \/ PrioritizeReturn

SpecScore == InitScore /\ [][NextScore]_vars

\* ------------------------------------------------------------------ claims, group_score
\* the nodes of the call whose pass of the loop is over
Passed == 1..(call.i - 1)

HasScaleLabel(node) ==
    \E l \in DOMAIN node.labels : l = "group" /\ node.labels[l] = "Scale"

\* C6: the list a call returns is as long as its node list and its i-th entry names the
\* i-th node, whether the node is labelled, has pods, or its lookup failed.
C6_OneEntryPerNodeInOrder ==
    call.pc = "done" =>
        /\ DOMAIN call.list = 1..Len(call.nodes)
        /\ \A j \in 1..Len(call.nodes) : call.list[j].Host = call.nodes[j].name

\* a call over <<n2, n1>> returned: n2's lookup failed, n1 has no label
C6_Witness ==
    /\ call.pc = "done"
    /\ Len(call.nodes) = 2
    /\ call.nodes[1].name = "n2"
    /\ call.nodes[2].name = "n1"
    /\ HasScaleLabel(call.nodes[1])
    /\ looked[1].err
    /\ ~HasScaleLabel(call.nodes[2])

\* C7: a node without the label group=Scale (no group label, or another value) scores
\* exactly 1000, whatever its capacity.
C7_UnlabelledScoresDefault ==
    call.pc \in {"loop", "done"} =>
        \A j \in Passed : ~HasScaleLabel(call.nodes[j]) => call.list[j].Score = 1000

\* a node labelled group=Batch with no capacity and a node with no label were scored
C7_Witness ==
    /\ call.pc = "done"
    /\ Len(call.nodes) = 2
    /\ "group" \in DOMAIN call.nodes[1].labels
    /\ call.nodes[1].labels["group"] = "Batch"
    /\ call.nodes[1].cpuCap = Q(0, 0)
    /\ DOMAIN call.nodes[2].labels = {}
    /\ call.list[1].Score = 1000
    /\ call.list[2].Score = 1000

\* a quantity in thousandths, whatever its scale
Milli(q) == IF q.scale = 0 THEN q.value * 1000 ELSE q.value

RECURSIVE MilliOfContainers(_)
MilliOfContainers(cs) ==
    IF cs = <<>> THEN [cpu |-> 0, mem |-> 0]
    ELSE LET r == MilliOfContainers(Tail(cs))
         IN  [cpu |-> Milli(Head(cs).cpu) + r.cpu, mem |-> Milli(Head(cs).mem) + r.mem]

RECURSIVE MilliRequested(_)
MilliRequested(objs) ==
    IF objs = {} THEN [cpu |-> 0, mem |-> 0]
    ELSE LET o == CHOOSE x \in objs : TRUE
             r == MilliRequested(objs \ {o})
             c == MilliOfContainers(o.containers)
         IN  [cpu |-> c.cpu + r.cpu, mem |-> c.mem + r.mem]

\* ((cpuRequested/cpuCapacity) + (memRequested/memCapacity)) * 100, truncated, on the
\* sums of the requests as declared
Utilisation(node, objs) ==
    LET r == MilliRequested(objs)
        cc == Milli(node.cpuCap)
        mc == Milli(node.memCap)
    IN  (100 * (r.cpu * mc + r.mem * cc)) \div (cc * mc)

\* C8: for a labelled node whose lookup succeeds the score is the utilisation
\* ((cpuRequested/cpuCapacity) + (memRequested/memCapacity)) * 100 truncated, on the
\* sums of the requests of the node's indexed pods; no indexed pod gives 0.
C8_ScoreIsUtilisation ==
    call.pc \in {"loop", "done"} =>
        \A j \in Passed :
            (HasScaleLabel(call.nodes[j]) /\ ~looked[j].err) =>
                /\ looked[j].pods = {} => call.list[j].Score = 0
                /\ (Milli(call.nodes[j].cpuCap) # 0 /\ Milli(call.nodes[j].memCap) # 0) =>
                       call.list[j].Score = Utilisation(call.nodes[j], looked[j].pods)

\* C9: every score of a call lies in 0..1000.
C9_ScoreInRange ==
    call.pc \in {"loop", "done"} =>
        \A j \in Passed : call.list[j].Score >= 0 /\ call.list[j].Score <= 1000

\* the scores the loop gives a node on its own, given what its lookup returned
ScoresAlone(node, lookup) ==
    IF ~HasScaleLabel(node) THEN {1000}
    ELSE IF lookup.err THEN {0}
    ELSE ScoreOutcomes(node, lookup.pods)

\* C10: a failed lookup gives its node the score 0 and nothing else: every node of the
\* call is still passed in turn, each other node gets the score it gets on its own, and
\* the call returns the full list with a nil error.
C10_LookupFailureIsLocal ==
    call.pc \in {"loop", "done"} =>
        /\ Len(looked) = call.i - 1
        /\ \A j \in Passed :
              /\ (HasScaleLabel(call.nodes[j]) /\ looked[j].err) => call.list[j].Score = 0
              /\ call.list[j].Score \in ScoresAlone(call.nodes[j], looked[j])
        /\ call.pc = "done" =>
              /\ call.i = Len(call.nodes) + 1
              /\ DOMAIN call.list = 1..Len(call.nodes)
              /\ call.err = "nil"

\* the lookup of the first node failed, the second node was scored 75 from its two pods
C10_Witness ==
    /\ call.pc = "done"
    /\ Len(call.nodes) = 2
    /\ HasScaleLabel(call.nodes[1])
    /\ looked[1].err
    /\ call.list[1].Score = 0
    /\ HasScaleLabel(call.nodes[2])
    /\ ~looked[2].err
    /\ Cardinality(looked[2].pods) = 2
    /\ call.list[2].Score = 75

\* ------------------------------------------------------------------ claims, bind and always_true
\* a step in which the bind callback answers
BindStep == reply'.kind = "bind" /\ reply' # reply

\* C11: the bind callback returns a non-nil error for every pod name, namespace, UID and
\* target node, and its step leaves the index, the queue and the rest of the service's
\* state as they were.
C11_BindAlwaysFails ==
    /\ [](reply.kind = "bind" => reply.result.err # "nil")
    /\ [][BindStep => UNCHANGED <<informerVars, mpc>>]_vars

\* a bind call has answered while the index held a pod
C11_Witness ==
    /\ reply.kind = "bind"
    /\ reply.result.err # "nil"
    /\ \E n \in NodeNames : podsOnNode(n) # {}

\* C12: always_true answers (true, no error) for every pod and node, also for a node
\* the index holds nothing for, whatever the index holds.
C12_PredicateAlwaysTrue ==
    reply.kind = "predicate" => reply.result = [ok |-> TRUE, err |-> "nil"]

\* always_true has answered for a node the index holds no pod for while it holds pods
\* for another node
C12_Witness ==
    /\ reply.kind = "predicate"
    /\ reply.result.ok
    /\ ByIndexIn(items, indices, reply.args[2].name) = {}
    /\ \E n \in NodeNames : podsOnNode(n) # {}

\* ------------------------------------------------------------------ watched objects that are no pods
\* objects of another type the watch can deliver under the key of a pod; the fields a
\* pod would be indexed by are filled in
NonPods == { Object("Node", "p1", "n1", "Running", OneContainer) }

NoExpectedType(obj) == TRUE

\* line 41: the informer is built for &v1.Pod{}; the reflector's watch handler compares
\* the type of every event's object with it
ExpectedType(obj) == IsPod(obj)

\* a watch event whose object is no pod: the reflector reports "unexpected type" and
\* goes on with the next event
WatchOther ==
    /\ rpc = "watch"
    /\ wpc = "idle"
    /\ Len(queue) < MaxQueue
    /\ nEvents < MaxEvents
    /\ \E obj \in NonPods :
          IF ExpectedType(obj)
          THEN queue' = Append(queue, Delta(IF Known(obj.key) THEN Updated ELSE Added, obj))
          ELSE queue' = queue
    /\ nEvents' = nEvents + 1
    /\ skipped' = nEvents + 1
    /\ UNCHANGED <<arch, call2, looked2, reply, rpc, populated, initialPopulationCount, wpc,
                   cur, items, indices, before, applied, pendingInitial, mpc, call, looked>>

NextWatch ==
    \/ List
    \/ WatchEvent
    \/ WatchOther
    \/ Resync
    \/ Pop
    \/ SetItem
    \/ UpdateIndices
    \/ DeleteFromIndices
    \/ DeleteItem
    \/ Release

\* the informer alone, its watch delivering pods and objects that are no pods
SpecWatch == Init /\ [][NextWatch]_vars

\* C13: a watched object that is no pod is skipped and the consumer goes on: no node's
\* set ever holds it, the event leaves every node's set, the cache and the queue as
\* they were, and between events the index still is what the pod events applied so
\* far make it.
C13_NonPodIsSkipped ==
    /\ [](wpc = "idle" =>
            /\ \A n \in NodeNames : \A o \in podsOnNode(n) : IsPod(o)
            /\ \A n \in NodeNames : podsOnNode(n) = LatestOnNode(n))
    /\ [][skipped' # skipped =>
            /\ \A n \in NodeNames : podsOnNode(n)' = podsOnNode(n)
            /\ UNCHANGED <<queue, items, indices>>]_vars

\* an object that is no pod came under the key of pod p1, and the watch event after it,
\* which put p1 on n2, has been applied
C13_Witness ==
    /\ skipped > 0
    /\ nEvents > skipped
    /\ wpc = "idle"
    /\ queue = <<>>
    /\ "p1" \in DOMAIN applied
    /\ applied["p1"].nodeName = "n2"
    /\ podsOnNode("n2") = {applied["p1"]}

\* ------------------------------------------------------------------ scheduling
\* threadSafeMap's Add, Update and Delete between Lock and Unlock: straight-line code
\* on the cache's maps, which never waits
InLock == SetItem \/ UpdateIndices \/ DeleteFromIndices \/ DeleteItem \/ Release

\* the service with its callbacks scheduled: a goroutine that is able to run does run.
\* Nothing is assumed of the watch: no event need come, no queued delta need be popped
SpecServing ==
    /\ Init
    /\ [][NextServing]_vars
    /\ WF_vars(PrioritizeNode)
    /\ WF_vars(PrioritizeReturn)
    /\ WF_vars(InLock)

\* the informer and main with the consumer and main scheduled: a queued delta is
\* popped and applied, and WaitForCacheSync's poll of HasSynced runs
SpecSync ==
    /\ Init
    /\ [][NextSync]_vars
    /\ WF_vars(Pop)
    /\ WF_vars(InLock)
    /\ WF_vars(WaitForCacheSync)

\* C14: a group_score call that has started returns without any event of the watch and
\* without the consumer taking a delta from its queue: whenever the consumer is between
\* two deltas the call's next pass can run, and every call comes to its return.
C14_CallbackReturns ==
    /\ [](call.pc = "loop" /\ wpc = "idle" => ENABLED (PrioritizeNode \/ PrioritizeReturn))
    /\ (call.pc = "loop" ~> call.pc = "done")

\* a call over two labelled nodes has returned while a delta was still queued
C14_Witness ==
    /\ call.pc = "done"
    /\ Len(call.nodes) = 2
    /\ \A j \in 1..2 : Labelled(call.nodes[j])
    /\ queue # <<>>

\* every pod of the first listing is in the cache
ListingApplied == populated /\ pendingInitial = {}

\* C15: once the first listing has been applied, main comes past WaitForCacheSync and
\* the service listens; main comes past it in no state in which the listing is not
\* applied.
C15_SyncThenServe ==
    /\ (ListingApplied ~> Listening)
    /\ [][mpc # "serving" /\ mpc' = "serving" => ListingApplied]_vars

\* the service listens after a first listing of two pods
C15_Witness ==
    /\ Listening
    /\ Cardinality(DOMAIN applied) = 2
    /\ nEvents = 0

\* ------------------------------------------------------------------ SpecSum
MaxSumObjects == 3

\* the objects a lookup can hand to the loop of lines 73-83: the pods of ScorePods, a pod
\* without containers, a pod whose first container requests nothing, and objects that
\* are no pods
SumObjects ==
    ScorePods("n1")
        \cup { Pod("p5", "n1", "Running", <<>>),
               Pod("p6", "n1", "Running", <<[cpu |-> ZeroQuantity, mem |-> ZeroQuantity],
                                            [cpu |-> Q(250, -3), mem |-> ZeroQuantity]>>) }
        \cup NonPods \cup {NilObj}

SumInputs == { S \in SUBSET SumObjects : Cardinality(S) <= MaxSumObjects }

\* a lookup has returned its objects
InitSum ==
    /\ rpc = "watch"
    /\ queue = <<>>
    /\ populated = TRUE
    /\ initialPopulationCount = 0
    /\ wpc = "idle"
    /\ cur = NoDelta
    /\ items = EmptyMap
    /\ indices = EmptyIndex
    /\ before = [items |-> EmptyMap, indices |-> EmptyIndex]
    /\ applied = EmptyMap
    /\ pendingInitial = {}
    /\ nEvents = 0
    /\ mpc = "serving"
    /\ call = IdleCall
    /\ looked = <<>>
    /\ \E objs \in SumInputs : reply = [kind |-> "objects", args |-> objs, result |-> <<>>]
    /\ skipped = 0
    /\ arch = "amd64"
    /\ call2 = IdleCall
    /\ looked2 = <<>>

\* lines 73-83: cpu and mem after the loops over the objects and their containers
Aggregate ==
    /\ reply.kind = "objects"
    /\ reply' = [reply EXCEPT !.kind = "sum", !.result = SumRequests(reply.args, ZeroRequests)]
    /\ UNCHANGED <<otherVars, informerVars, mpc, call, looked>>

SpecSum == InitSum /\ [][Aggregate]_vars

\* the pods among the objects
PodsAmong(objs) == { o \in objs : o.kind = "Pod" }

\* C16: the CPU and the memory the loop has summed are the sums of the requests of every
\* container of every pod the lookup returned, each container once; a container and a
\* pod without requests add nothing, and so does an object that is no pod.
C16_SumsAreRequests ==
    reply.kind = "sum" =>
        LET r == MilliRequested(PodsAmong(reply.args))
        IN  /\ Milli(reply.result.cpu) = r.cpu
            /\ Milli(reply.result.mem) = r.mem

\* summed: a pod of two containers, a pod with a fractional request and an object that
\* is no pod
C16_Witness ==
    /\ reply.kind = "sum"
    /\ \E o \in reply.args : IsPod(o) /\ Len(o.containers) = 2
    /\ \E o \in reply.args : IsPod(o) /\ \E j \in 1..Len(o.containers) : o.containers[j].cpu.scale # 0
    /\ \E o \in reply.args : ~IsPod(o) /\ o.containers # <<>>
    /\ Milli(reply.result.cpu) > 0

\* ------------------------------------------------------------------ claims, callbacks and the index
\* a step of a predicate, priority or bind callback
CallbackStep == call' # call \/ reply' # reply

\* C17: a step of always_true or of group_score leaves the index as it is: the same pods
\* under the same nodes after the call as before it. Only the consumer's steps change
\* the index.
C17_CallbacksOnlyRead ==
    [][CallbackStep => UNCHANGED <<items, indices>>]_vars

\* a call over two labelled nodes has returned, the index holding pods on both
C17_Witness ==
    /\ call.pc = "done"
    /\ Len(looked) = 2
    /\ \A j \in 1..2 : ~looked[j].err /\ looked[j].pods # {}
    /\ \A n \in NodeNames : podsOnNode(n) # {}

\* ------------------------------------------------------------------ claims, order of the scores
\* node j of the call is labelled, its lookup succeeded, its capacities are whole and
\* not zero
Rated(j) ==
    /\ HasScaleLabel(call.nodes[j])
    /\ ~looked[j].err
    /\ call.nodes[j].cpuCap.scale = 0 /\ call.nodes[j].cpuCap.value > 0
    /\ call.nodes[j].memCap.scale = 0 /\ call.nodes[j].memCap.value > 0

\* cpuRequested/cpuCapacity + memRequested/memCapacity of node j is
\* RatioNum(j) / (1000 * RatioDen(j)), on the requests as declared
RatioNum(j) ==
    LET r == MilliRequested(PodsAmong(looked[j].pods))
    IN  r.cpu * call.nodes[j].memCap.value + r.mem * call.nodes[j].cpuCap.value

RatioDen(j) == call.nodes[j].cpuCap.value * call.nodes[j].memCap.value

\* C18: of two labelled nodes of a call whose lookups succeeded, the one with the higher
\* sum of request-to-capacity ratios has a score at least as high, and a higher score
\* when the sums differ by 0.01 or more.
C18_ScoreFollowsRatio ==
    call.pc \in {"loop", "done"} =>
        \A i, j \in Passed :
            (Rated(i) /\ Rated(j)) =>
                LET d == RatioNum(i) * RatioDen(j) - RatioNum(j) * RatioDen(i)
                IN  /\ d > 0 => call.list[i].Score >= call.list[j].Score
                    /\ d >= 10 * RatioDen(i) * RatioDen(j) =>
                           call.list[i].Score > call.list[j].Score

\* ------------------------------------------------------------------ SpecTwoCalls
\* the pods of two scheduling requests: they differ in name and in what they request
TwoCallPods == CallPods \cup { Pod("p9", "", "Pending", <<>>) }

\* the nodes of the two calls: those of SysNodes and n1 reporting no capacity
TwoCallNodes == SysNodes \cup { Node("n1", GroupLabel("Scale"), Q(0, 0), Q(0, 0)) }

TwoCallNodeLists ==
    { l \in SeqsUpTo(TwoCallNodes, MaxCallNodes) :
        \A i, j \in 1..Len(l) : i # j => l[i].name # l[j].name }

\* the cache after the consumer has processed the deltas ds
RECURSIVE ProcessAll(_, _)
ProcessAll(st, ds) == IF ds = <<>> THEN st ELSE ProcessAll(Process(st, Head(ds)), Tail(ds))

\* the service is serving, the first listing is applied and no event is pending; two
\* workers have each just started a group_score call, for any two pods and one node list
InitTwoCalls ==
    /\ rpc = "watch"
    /\ queue = <<>>
    /\ populated = TRUE
    /\ initialPopulationCount = 0
    /\ wpc = "idle"
    /\ cur = NoDelta
    /\ \E f \in InitialLists :
          LET st == ProcessAll([items |-> EmptyMap, indices |-> EmptyIndex],
                               SyncDeltas(f, InKeyOrder(DOMAIN f)))
          IN  /\ items = st.items
              /\ indices = st.indices
              /\ before = st
              /\ applied = f
    /\ pendingInitial = {}
    /\ nEvents = 0
    /\ mpc = "serving"
    /\ \E nodes \in TwoCallNodeLists :
          /\ \E pod \in TwoCallPods : call = NewCall(pod, nodes)
          /\ \E pod \in TwoCallPods : call2 = NewCall(pod, nodes)
    /\ looked = <<>>
    /\ looked2 = <<>>
    /\ reply = NoReply
    /\ skipped = 0
    /\ arch \in Archs

\* one pass of the loop of the second call, as PrioritizeNode is for the first
SecondNode ==
    /\ call2.pc = "loop"
    /\ call2.i <= Len(call2.nodes)
    /\ LET node == call2.nodes[call2.i]
           lookup == IF Labelled(node) THEN Lookup(FALSE, ByIndexIn(items, indices, node.name))
                     ELSE NoLookup
       IN  /\ Labelled(node) => CanRLock
           /\ call2' \in LoopOutcomes(call2, lookup)
           /\ looked2' = Append(looked2, lookup)
    /\ UNCHANGED <<skipped, arch, reply, informerVars, mpc, call, looked>>

\* line 90 in the second call
SecondReturn ==
    /\ call2.pc = "loop"
    /\ call2.i > Len(call2.nodes)
    /\ call2' = [call2 EXCEPT !.pc = "done", !.err = "nil"]
    /\ UNCHANGED <<skipped, arch, looked2, reply, informerVars, mpc, call, looked>>

NextTwoCalls ==
    \/ PrioritizeNode
    \/ PrioritizeReturn
    \/ SecondNode
    \/ SecondReturn

\* two concurrent group_score calls over an index no event changes
SpecTwoCalls == InitTwoCalls /\ [][NextTwoCalls]_vars

\* C19: two group_score calls with the same node list over the same index state return
\* the same list of scores, whatever the pod each is made for and however their steps
\* interleave.
C19_SameNodesSameScores ==
    (call.pc = "done" /\ call2.pc = "done" /\ call.nodes = call2.nodes) =>
        /\ call.list = call2.list
        /\ call.err = call2.err

\* two calls for different pods have returned the same scores for two labelled nodes,
\* one of them holding pods
C19_Witness ==
    /\ call.pc = "done"
    /\ call2.pc = "done"
    /\ call.pod # call2.pod
    /\ Len(call.nodes) = 2
    /\ \A j \in 1..2 : Labelled(call.nodes[j])
    /\ \E j \in 1..2 : looked[j].pods # {} /\ call.list[j].Score \notin {0, 1000}
    /\ call.list = call2.list

\* ------------------------------------------------------------------ claims, one call and the consumer
\* C20 as stated: in one group_score call no pod is counted for two nodes, also when
\* the consumer moves the pod from one node to the other during the call.
C20_PodCountedOnce ==
    call.pc \in {"loop", "done"} =>
        \A i, j \in Passed :
            i # j => \A o \in looked[i].pods, o2 \in looked[j].pods : o.key # o2.key

\* C20, amended: every lookup of a call counts a pod for a node only in a state in
\* which the pod is active and assigned to that node, and counts it once; a pod
\* counted for two nodes of one call was counted in two different states, one before
\* and one after an event that moved it.
C20_CountedWhereAssigned ==
    call.pc \in {"loop", "done"} =>
        /\ \A j \in Passed :
              \A o \in looked[j].pods :
                  /\ IsPod(o)
                  /\ Active(o)
                  /\ o.nodeName = call.nodes[j].name
                  /\ \A o2 \in looked[j].pods : o2.key = o.key => o2 = o
        /\ \A i, j \in Passed :
              i # j => \A o \in looked[i].pods, o2 \in looked[j].pods :
                          o.key = o2.key => o.nodeName # o2.nodeName

\* a call has returned with one pod counted for both of its nodes: the consumer applied
\* the pod's move between the two lookups
C20_Witness ==
    /\ call.pc = "done"
    /\ Len(looked) = 2
    /\ \E o \in looked[1].pods, o2 \in looked[2].pods : o.key = o2.key /\ o # o2

====
